---- MODULE Spec2Model ----
(***************************************************************************)
(* A model of lib/collection.js: the Collection facade of the adapter.     *)
(* Each public operation (find, insert, update, destroy) is a chain of     *)
(* callbacks run by the event loop: the synchronous part of the call, the  *)
(* connection's open callback, one callback per driver call and one close  *)
(* callback.  Every callback is one action.  Several operations may be in  *)
(* flight on the same Collection and interleave at callback boundaries.    *)
(***************************************************************************)
EXTENDS Integers, Sequences, FiniteSets, TLC

\* ------------------------------------------------------------------------
\* Bounds of the model
\* ------------------------------------------------------------------------
MaxOps == 2      \* operations in flight on the Collection
MaxDocs == 2     \* identifiers the store can hand out

Ops == 1..MaxOps
DocIds == 1..MaxDocs
ConnIds == 1..MaxOps
NameOrder == <<"a", "b">>
Names == {NameOrder[k] : k \in DOMAIN NameOrder}
Absent == "absent"

\* ------------------------------------------------------------------------
\* Values passed between the driver, the handlers and the caller
\* ------------------------------------------------------------------------
\* A JavaScript value in result position: undefined, null, a number or an array.
Undefined == [tag |-> "undefined", n |-> 0, items |-> <<>>]
Null == [tag |-> "null", n |-> 0, items |-> <<>>]
Num(k) == [tag |-> "number", n |-> k, items |-> <<>>]
List(s) == [tag |-> "array", n |-> 0, items |-> s]

NoErr == "null"
DriverErr == "driverError"
QueryErr == "queryError"
NotFoundErr == "Could not find any records to update"

RECURSIVE SeqOfSet(_)
SeqOfSet(S) ==
  IF S = {} THEN <<>>
  ELSE LET m == CHOOSE x \in S : \A y \in S : x <= y
       IN <<m>> \o SeqOfSet(S \ {m})

Range(s) == {s[i] : i \in DOMAIN s}

\* ------------------------------------------------------------------------
\* The store behind the driver: one collection of documents {_id, name}
\* ------------------------------------------------------------------------
\* where: "*" is the empty predicate {}, "undefined" an absent where (the
\* driver takes both as no restriction), otherwise a name the documents' name
\* field must equal.
Wheres == {"*", "undefined"} \cup Names

Matches(w, v) == v # Absent /\ (w \in {"*", "undefined"} \/ w = v)

Matching(st, w) == {i \in DocIds : Matches(w, st[i])}

Doc(st, i) == [_id |-> i, name |-> st[i]]

\* collection.find(where).toArray: the matching documents
DriverFind(st, w) ==
  LET ids == SeqOfSet(Matching(st, w))
  IN [k \in DOMAIN ids |-> Doc(st, ids[k])]

\* collection.find(where, options).toArray: options.limit cuts the result short
DriverFindWith(st, w, options) ==
  LET all == DriverFind(st, w)
  IN IF "limit" \in DOMAIN options /\ options.limit < Len(all)
       THEN SubSeq(all, 1, options.limit)
       ELSE all

\* collection.find({_id: {$in: ids}}).toArray
DriverFindIn(st, ids) ==
  LET found == SeqOfSet({i \in Range(ids) : st[i] # Absent})
  IN [k \in DOMAIN found |-> Doc(st, found[k])]

\* collection.update(where, {$set: values}, {multi: true})
DriverUpdate(st, w, values) ==
  [i \in DocIds |->
     IF Matches(w, st[i]) /\ "name" \in DOMAIN values THEN values.name ELSE st[i]]

\* collection.remove(where)
DriverRemove(st, w) == [i \in DocIds |-> IF Matches(w, st[i]) THEN Absent ELSE st[i]]

FreeIds(st) == {i \in DocIds : st[i] = Absent}

\* the identifiers the store gives to k new documents
NewIds(st, k) == SubSeq(SeqOfSet(FreeIds(st)), 1, k)

\* collection.insert(docs): every document gets a fresh _id
DriverInsert(st, docs) ==
  LET ids == NewIds(st, Len(docs))
  IN [i \in DocIds |->
        IF \E k \in DOMAIN ids : ids[k] = i
          THEN docs[CHOOSE k \in DOMAIN ids : ids[k] = i].name
          ELSE st[i]]

\* collection.aggregate([{$match: where}, {$group: {_id: {name: "$name"}}}]):
\* one result per group, the grouped values under the synthetic _id
DriverAggregate(st, w) ==
  LET inGroup(n) == {i \in Matching(st, w) : st[i] = n}
      groups == SelectSeq(NameOrder, LAMBDA n : inGroup(n) # {})
  IN [k \in DOMAIN groups |->
        [_id |-> [name |-> groups[k]], count |-> Cardinality(inGroup(groups[k]))]]

\* utils.rewriteIds: the store-native _id becomes id
RewriteId(doc) ==
  [f \in (DOMAIN doc \ {"_id"}) \cup {"id"} |->
     IF f = "id" THEN doc._id ELSE doc[f]]

RewriteIds(docs) == [k \in DOMAIN docs |-> RewriteId(docs[k])]

\* ------------------------------------------------------------------------
\* The Collection object: identity, schema and indexes
\* ------------------------------------------------------------------------
\* strings that are compared letter by letter are sequences of letters
UpperCase == <<"U", "S">>
LowerCase == <<"u", "s">>
LowerChar(ch) ==
  IF \E k \in DOMAIN UpperCase : UpperCase[k] = ch
  THEN LowerCase[CHOOSE k \in DOMAIN UpperCase : UpperCase[k] = ch]
  ELSE ch

\* String.prototype.toLowerCase
ToLowerCase(str) == [k \in DOMAIN str |-> LowerChar(str[k])]

\* schema[key].flag taken as a condition
Flag(spec, flag) == flag \in DOMAIN spec /\ spec[flag]

\* delete schema[key].flag
Deleted(spec, flag) == [f \in DOMAIN spec \ {flag} |-> spec[f]]

\* a schema lists its fields in key order
Schema(s, t) == <<[key |-> "name", spec |-> s], [key |-> "age", spec |-> t]>>
Schemas ==
  {Schema([unique |-> TRUE, index |-> TRUE], [index |-> TRUE, autoIncrement |-> TRUE]),
   Schema([unique |-> TRUE], [required |-> TRUE]),
   Schema([unique |-> FALSE, autoIncrement |-> FALSE], [index |-> TRUE])}

Identities == {<<"U", "s">>, <<"u", "s">>}

\* the definitions a Collection is constructed from
Definitions == [identity : Identities, definition : Schemas]

DefaultDefinition ==
  [identity |-> <<"U", "s">>,
   definition |-> Schema([unique |-> TRUE, index |-> TRUE],
                         [index |-> TRUE, autoIncrement |-> TRUE])]

\* parseDefinition that keeps the identity as it was given
parseDefinition_asGiven(collectionDef) ==
  [identity |-> collectionDef.identity,
   schema |-> [k \in DOMAIN collectionDef.definition |->
                 LET field == collectionDef.definition[k]
                 IN [key |-> field.key,
                     spec |-> IF Flag(field.spec, "autoIncrement")
                              THEN Deleted(field.spec, "autoIncrement")
                              ELSE field.spec]]]

\* parseDefinition(definition): the schema without truthy autoIncrement
\* attributes, and the lower-cased identity
parseDefinition(collectionDef) ==
  [identity |-> ToLowerCase(collectionDef.identity),
   schema |-> [k \in DOMAIN collectionDef.definition |->
                 LET field == collectionDef.definition[k]
                 IN [key |-> field.key,
                     spec |-> IF Flag(field.spec, "autoIncrement")
                              THEN Deleted(field.spec, "autoIncrement")
                              ELSE field.spec]]]

\* the index object {key: 1}
SingleKey(key) == [f \in {key} |-> 1]

\* buildIndexes whose unique branch falls through to the index branch
RECURSIVE buildIndexes_fallThrough(_)
buildIndexes_fallThrough(schema) ==
  IF schema = <<>> THEN <<>>
  ELSE LET field == Head(schema)
           unique == IF Flag(field.spec, "unique")
                     THEN <<[index |-> SingleKey(field.key),
                             options |-> [sparse |-> TRUE, unique |-> TRUE]]>>
                     ELSE <<>>
           index == IF Flag(field.spec, "index")
                    THEN <<[index |-> SingleKey(field.key), options |-> [sparse |-> TRUE]]>>
                    ELSE <<>>
       IN unique \o index \o buildIndexes_fallThrough(Tail(schema))

\* buildIndexes(): what the walk over the schema's keys pushes on indexes
RECURSIVE buildIndexes(_)
buildIndexes(schema) ==
  IF schema = <<>> THEN <<>>
  ELSE LET field == Head(schema)
           pushed == IF Flag(field.spec, "unique")
                     THEN <<[index |-> SingleKey(field.key),
                             options |-> [sparse |-> TRUE, unique |-> TRUE]]>>
                     ELSE IF Flag(field.spec, "index")
                     THEN <<[index |-> SingleKey(field.key), options |-> [sparse |-> TRUE]]>>
                     ELSE <<>>
       IN pushed \o buildIndexes(Tail(schema))

\* new Collection(definition)
Collection(def) ==
  LET parsed == parseDefinition(def)
  IN [identity |-> parsed.identity,
      schema |-> parsed.schema,
      indexes |-> buildIndexes(parsed.schema)]

\* ------------------------------------------------------------------------
\* State
\* ------------------------------------------------------------------------
VARIABLES
  definition,      \* the definition the Collection was constructed from
  self,            \* the Collection: identity, schema, indexes
  store,           \* the store's collection: identifier -> name, or Absent
  conns,           \* every Connection object: its state
  closers,         \* per Connection, the operations that issued close on it
  opens,           \* per operation, how many times it called connection.open
  closes,          \* per operation, how many times it called database.close
  pc,              \* per operation, the callback it is waiting for
  args,            \* per operation, the arguments of the call
  connection,      \* per operation, its local variable `connection`
  err,             \* per operation, `err` captured by the pending close callback
  results,         \* per operation, `results`/`docs`/`records` captured likewise
  updatedRecords,  \* per operation, update's local `updatedRecords`
  cb,              \* per operation, the invocations of the caller's callback
  calls,           \* per operation, the driver calls it issued, in order
  lookup,          \* per operation, what update's lookup reported
  touched,         \* per operation, the documents its driver write applied to
  changed,         \* per operation, the documents its driver write changed
  interleaved      \* per operation, whether another operation wrote meanwhile

vars == <<definition, self, store, conns, closers, opens, closes, pc, args, connection, err, results,
          updatedRecords, cb, calls, lookup, touched, changed, interleaved>>

NoCriteria == [object |-> <<>>, aggregate |-> FALSE, group |-> "undefined", malformed |-> FALSE]
NoArgs == [op |-> "none", criteria |-> NoCriteria, values |-> <<>>]

\* what construction and the store's contents leave of the initial state
Fresh ==
  /\ self = Collection(definition)
  /\ conns = [c \in ConnIds |-> "none"]
  /\ closers = [c \in ConnIds |-> {}]
  /\ opens = [o \in Ops |-> 0]
  /\ closes = [o \in Ops |-> 0]
  /\ pc = [o \in Ops |-> "idle"]
  /\ args = [o \in Ops |-> NoArgs]
  /\ connection = [o \in Ops |-> 0]
  /\ err = [o \in Ops |-> NoErr]
  /\ results = [o \in Ops |-> Undefined]
  /\ updatedRecords = [o \in Ops |-> <<>>]
  /\ cb = [o \in Ops |-> <<>>]
  /\ calls = [o \in Ops |-> <<>>]
  /\ lookup = [o \in Ops |-> "none"]
  /\ touched = [o \in Ops |-> {}]
  /\ changed = [o \in Ops |-> {}]
  /\ interleaved = [o \in Ops |-> FALSE]

\* one Collection, constructed from a definition with a mixed-case identity
Init ==
  /\ definition = DefaultDefinition
  /\ store \in [DocIds -> Names \cup {Absent}]
  /\ Fresh

\* a Collection constructed from any of the definitions, over a store that
\* holds one document
InitDef ==
  /\ definition \in Definitions
  /\ store = [i \in DocIds |-> IF i = 1 THEN NameOrder[1] ELSE Absent]
  /\ Fresh

Active(o) == pc[o] \notin {"idle", "done", "crashed"}
Finished(o) == pc[o] \in {"done", "crashed"}

\* ------------------------------------------------------------------------
\* Collaborators: Connection, Query, the driver's outcomes
\* ------------------------------------------------------------------------
\* a Connection kept on the Collection and reused by every operation
NewConnection_shared == CHOOSE c \in ConnIds : \A d \in ConnIds : c <= d

\* new Connection(this.config): a fresh object, the first one not yet handed out
NewConnection ==
  CHOOSE c \in ConnIds : conns[c] = "none" /\ \A d \in ConnIds : d < c => conns[d] # "none"

\* connection.open(onReady): onReady fires once, whether the open succeeded or not
OpenOutcomes == {"ok", "fail"}
OpenState(outcome) == IF outcome = "ok" THEN "open" ELSE "failed"

\* new Query(criteria) throws on malformed criteria
QueryThrows(criteria) == criteria.malformed

\* object[key], undefined when the object has no such key
Get(object, key) == IF key \in DOMAIN object THEN object[key] ELSE "undefined"

\* _.omit(object, key)
Omit(object, key) == [k \in DOMAIN object \ {key} |-> object[k]]

\* value || {}
OrEmpty(value) == IF value = "undefined" THEN "*" ELSE value

\* query.criteria.where, query.aggregate and query.aggregateGroup of new Query(criteria)
Where(criteria) == Get(criteria.object, "where")
Aggregate(criteria) == criteria.aggregate
AggregateGroup(criteria) == criteria.group

\* what a driver call on connection c can report: on a connection that is not
\* open it can only fail
DriverOutcomes(c) == IF conns[c] = "open" THEN {"ok", "err"} ELSE {"err"}

\* the operation slots are taken in order
NextSlot(o) == pc[o] = "idle" /\ \A p \in Ops : p < o => pc[p] # "idle"

\* connection.database.collection(self.identity).<name>(request...) issued by o
Issued(o, name, request) ==
  [calls EXCEPT ![o] = Append(@, [name |-> name, conn |-> connection[o],
                                  collection |-> self.identity,
                                  state |-> conns'[connection[o]],
                                  closedBy |-> closers[connection[o]],
                                  request |-> request])]

\* the driver call of o that is under way, as it was issued
Pending(o) == calls[o][Len(calls[o])].request

\* cb(e, r) invoked by o, whose connection is c: the state c is in at that moment
Invoked(o, e, r, c) ==
  [cb EXCEPT ![o] = Append(@, [err |-> e, result |-> r, conn |-> conns'[c]])]

\* connection.database.close(onClosed) issued by o
Close(o) ==
  /\ conns' = [conns EXCEPT ![connection[o]] = "closing"]
  /\ closers' = [closers EXCEPT ![connection[o]] = @ \cup {o}]
  /\ closes' = [closes EXCEPT ![o] = @ + 1]

\* the close completed: onClosed fires
Closed(o) == conns' = [conns EXCEPT ![connection[o]] = "closed"]

\* the driver write of o turned the store into st: the documents it changed,
\* and the operations in flight that it interleaved with
Wrote(o, st, ids) ==
  /\ store' = st
  /\ UNCHANGED <<definition, self>>
  /\ touched' = [touched EXCEPT ![o] = ids]
  /\ changed' = [changed EXCEPT ![o] = {i \in DocIds : st[i] # store[i]}]
  /\ interleaved' = [p \in Ops |-> interleaved[p] \/ (p # o /\ Active(p) /\ st # store)]

\* the results the closure captured are dropped when the operation ends
Drop(o) ==
  /\ results' = [results EXCEPT ![o] = Undefined]
  /\ UNCHANGED err

Capture(o, e, r) ==
  /\ err' = [err EXCEPT ![o] = e]
  /\ results' = [results EXCEPT ![o] = r]

\* ------------------------------------------------------------------------
\* find
\* ------------------------------------------------------------------------
\* the group specification Query derives for a group-by on name
GroupByName == [_id |-> [name |-> "$name"], count |-> "$sum"]

Plain(object) == [object |-> object, aggregate |-> FALSE, group |-> "undefined", malformed |-> FALSE]
Grouped(object) == [object |-> object, aggregate |-> TRUE, group |-> GroupByName, malformed |-> FALSE]
Malformed == [object |-> <<>>, aggregate |-> FALSE, group |-> "undefined", malformed |-> TRUE]

FindCriteria ==
  {Plain(<<>>), Plain([where |-> "a"]), Plain([where |-> "b", limit |-> 1]), Plain([limit |-> 1]),
   Grouped(<<>>), Grouped([where |-> "a"]), Malformed}

\* find without the try/catch around new Query: the exception reaches the caller
find_uncaught(o, criteria) ==
  /\ NextSlot(o)
  /\ LET c == NewConnection
     IN /\ connection' = [connection EXCEPT ![o] = c]
        /\ conns' = [conns EXCEPT ![c] = "created"]
        /\ args' = [args EXCEPT ![o] = [op |-> "find", criteria |-> criteria, values |-> <<>>]]
        /\ pc' = [pc EXCEPT ![o] = IF QueryThrows(criteria) THEN "crashed" ELSE "opening"]
        /\ opens' = [opens EXCEPT ![o] = IF QueryThrows(criteria) THEN @ ELSE @ + 1]
  /\ UNCHANGED <<definition, self, store, closers, closes, err, results, updatedRecords, cb, calls, lookup, touched,
                 changed, interleaved>>

\* the synchronous part of find(criteria, cb)
find(o, criteria) ==
  /\ NextSlot(o)
  /\ LET c == NewConnection
     IN /\ connection' = [connection EXCEPT ![o] = c]
        /\ conns' = [conns EXCEPT ![c] = "created"]
        /\ args' = [args EXCEPT ![o] = [op |-> "find", criteria |-> criteria, values |-> <<>>]]
        /\ IF QueryThrows(criteria)
             THEN /\ cb' = Invoked(o, QueryErr, Undefined, c)
                  /\ pc' = [pc EXCEPT ![o] = "done"]
                  /\ UNCHANGED opens
             ELSE /\ pc' = [pc EXCEPT ![o] = "opening"]
                  /\ opens' = [opens EXCEPT ![o] = @ + 1]
                  /\ UNCHANGED cb
  /\ UNCHANGED <<definition, self, store, closers, closes, err, results, updatedRecords, calls, lookup, touched, changed, interleaved>>

\* the open callback passing the whole criteria as the query's options
find_open_noOmit(o, outcome) ==
  /\ pc[o] = "opening" /\ args[o].op = "find"
  /\ conns' = [conns EXCEPT ![connection[o]] = OpenState(outcome)]
  /\ IF Aggregate(args[o].criteria)
       THEN /\ calls' = Issued(o, "aggregate",
                               [pipeline |-> <<[match |-> OrEmpty(Where(args[o].criteria))],
                                               [group |-> AggregateGroup(args[o].criteria)]>>])
            /\ pc' = [pc EXCEPT ![o] = "aggregate"]
       ELSE /\ calls' = Issued(o, "find",
                               [filter |-> OrEmpty(Where(args[o].criteria)),
                                options |-> args[o].criteria.object])
            /\ pc' = [pc EXCEPT ![o] = "find"]
  /\ UNCHANGED <<definition, self, store, closers, closes, args, opens, connection, err, results, updatedRecords, cb,
                 lookup, touched, changed, interleaved>>

\* the callback given to connection.open
find_open(o, outcome) ==
  /\ pc[o] = "opening" /\ args[o].op = "find"
  /\ conns' = [conns EXCEPT ![connection[o]] = OpenState(outcome)]
  /\ IF Aggregate(args[o].criteria)
       THEN /\ calls' = Issued(o, "aggregate",
                               [pipeline |-> <<[match |-> OrEmpty(Where(args[o].criteria))],
                                               [group |-> AggregateGroup(args[o].criteria)]>>])
            /\ pc' = [pc EXCEPT ![o] = "aggregate"]
       ELSE /\ calls' = Issued(o, "find",
                               [filter |-> OrEmpty(Where(args[o].criteria)),
                                options |-> Omit(args[o].criteria.object, "where")])
            /\ pc' = [pc EXCEPT ![o] = "find"]
  /\ UNCHANGED <<definition, self, store, closers, closes, args, opens, connection, err, results, updatedRecords, cb,
                 lookup, touched, changed, interleaved>>

\* the callback given to collection.aggregate
find_aggregate_cb(o, outcome) ==
  /\ pc[o] = "aggregate"
  /\ outcome \in DriverOutcomes(connection[o])
  /\ IF outcome = "ok"
       THEN Capture(o, NoErr, List(DriverAggregate(store, Pending(o).pipeline[1].match)))
       ELSE Capture(o, DriverErr, Undefined)
  /\ Close(o)
  /\ pc' = [pc EXCEPT ![o] = "close_aggregate"]
  /\ UNCHANGED <<definition, self, store, args, opens, connection, updatedRecords, cb, calls, lookup, touched, changed, interleaved>>

\* the grouped values copied up, the synthetic _id left in place
Flatten_keepId(result) ==
  [f \in DOMAIN result \cup DOMAIN result._id |->
     IF f \in DOMAIN result._id THEN result._id[f] ELSE result[f]]

\* result[key] = result._id[key] for every key; delete result._id
Flatten(result) ==
  [f \in (DOMAIN result \ {"_id"}) \cup DOMAIN result._id |->
     IF f \in DOMAIN result._id THEN result._id[f] ELSE result[f]]

\* the callback given to close after aggregate: results.map throws on undefined
find_aggregate_close(o) ==
  /\ pc[o] = "close_aggregate"
  /\ Closed(o)
  /\ IF results[o].tag # "array"
       THEN /\ pc' = [pc EXCEPT ![o] = "crashed"]
            /\ UNCHANGED cb
       ELSE /\ cb' = Invoked(o, err[o],
                             List([k \in DOMAIN results[o].items |-> Flatten(results[o].items[k])]),
                             connection[o])
            /\ pc' = [pc EXCEPT ![o] = "done"]
  /\ Drop(o)
  /\ UNCHANGED <<definition, self, store, closers, closes, args, opens, connection, updatedRecords, calls, lookup, touched, changed, interleaved>>

\* toArray's callback reporting the error at once, before closing
find_toArray_cb_early(o, outcome) ==
  /\ pc[o] = "find"
  /\ outcome \in DriverOutcomes(connection[o])
  /\ IF outcome = "ok"
       THEN /\ Capture(o, NoErr, List(DriverFindWith(store, Pending(o).filter, Pending(o).options)))
            /\ Close(o)
            /\ pc' = [pc EXCEPT ![o] = "close_find"]
            /\ UNCHANGED cb
       ELSE /\ Capture(o, DriverErr, Undefined)
            /\ UNCHANGED <<conns, closers, closes>>
            /\ cb' = Invoked(o, DriverErr, Undefined, connection[o])
            /\ pc' = [pc EXCEPT ![o] = "done"]
  /\ UNCHANGED <<definition, self, store, args, opens, connection, updatedRecords, calls, lookup, touched, changed, interleaved>>

\* the callback given to collection.find(where, queryOptions).toArray
find_toArray_cb(o, outcome) ==
  /\ pc[o] = "find"
  /\ outcome \in DriverOutcomes(connection[o])
  /\ IF outcome = "ok"
       THEN Capture(o, NoErr, List(DriverFindWith(store, Pending(o).filter, Pending(o).options)))
       ELSE Capture(o, DriverErr, Undefined)
  /\ Close(o)
  /\ pc' = [pc EXCEPT ![o] = "close_find"]
  /\ UNCHANGED <<definition, self, store, args, opens, connection, updatedRecords, cb, calls, lookup, touched, changed, interleaved>>

\* the callback given to close after find
find_close(o) ==
  /\ pc[o] = "close_find"
  /\ Closed(o)
  /\ IF err[o] # NoErr
       THEN cb' = Invoked(o, err[o], Undefined, connection[o])
       ELSE cb' = Invoked(o, NoErr, List(RewriteIds(results[o].items)), connection[o])
  /\ pc' = [pc EXCEPT ![o] = "done"]
  /\ Drop(o)
  /\ UNCHANGED <<definition, self, store, closers, closes, args, opens, connection, updatedRecords, calls, lookup, touched, changed, interleaved>>

\* ------------------------------------------------------------------------
\* insert
\* ------------------------------------------------------------------------
\* new Document(value, schema).values: the value shaped for storage (the fields
\* the store keeps)
StoredFields == {"name", "id", "_id"}
Document(value) == [f \in DOMAIN value \cap StoredFields |-> value[f]]

\* the values argument: one object, or an array of objects
InsertValues ==
  {[isArray |-> FALSE, object |-> [name |-> "a"], items |-> <<>>],
   [isArray |-> TRUE, object |-> [name |-> "a"], items |-> <<[name |-> "b", extra |-> 1]>>],
   [isArray |-> TRUE, object |-> [name |-> "a"], items |-> <<[name |-> "a"], [name |-> "b"]>>]}

\* the values taken for an array as they come
AsArray_noWrap(values) == values.items

\* if(!_.isArray(values)) values = [values]
AsArray(values) == IF values.isArray THEN values.items ELSE <<values.object>>

\* the synchronous part of insert(values, cb)
insert(o, values) ==
  /\ NextSlot(o)
  /\ LET c == NewConnection
         array == AsArray(values)
         docs == [k \in DOMAIN array |-> Document(array[k])]
     IN /\ connection' = [connection EXCEPT ![o] = c]
        /\ conns' = [conns EXCEPT ![c] = "created"]
        /\ args' = [args EXCEPT ![o] = [op |-> "insert", criteria |-> NoCriteria,
                                        values |-> docs, input |-> values]]
  /\ pc' = [pc EXCEPT ![o] = "opening"]
  /\ opens' = [opens EXCEPT ![o] = @ + 1]
  /\ UNCHANGED <<definition, self, store, closers, closes, err, results, updatedRecords, cb, calls, lookup, touched, changed, interleaved>>

\* the callback given to connection.open
insert_open(o, outcome) ==
  /\ pc[o] = "opening" /\ args[o].op = "insert"
  /\ conns' = [conns EXCEPT ![connection[o]] = OpenState(outcome)]
  /\ calls' = Issued(o, "insert", [docs |-> args[o].values])
  /\ pc' = [pc EXCEPT ![o] = "insert"]
  /\ UNCHANGED <<definition, self, store, closers, closes, args, opens, connection, err, results, updatedRecords, cb,
                 lookup, touched, changed, interleaved>>

\* the inserted documents as the driver reports them, with their _id
Inserted(st, docs) ==
  LET ids == NewIds(st, Len(docs))
  IN [k \in DOMAIN docs |-> [f \in DOMAIN docs[k] \cup {"_id"} |->
                                IF f = "_id" THEN ids[k] ELSE docs[k][f]]]

\* the callback given to collection.insert
insert_cb(o, outcome) ==
  /\ pc[o] = "insert"
  /\ outcome \in DriverOutcomes(connection[o])
  /\ outcome = "ok" => Len(args[o].values) <= Cardinality(FreeIds(store))
  /\ IF outcome = "ok"
       THEN /\ Capture(o, NoErr, List(Inserted(store, args[o].values)))
            /\ Wrote(o, DriverInsert(store, args[o].values),
                     Range(NewIds(store, Len(args[o].values))))
       ELSE /\ Capture(o, DriverErr, Undefined)
            /\ UNCHANGED <<definition, self, store, touched, changed, interleaved>>
  /\ Close(o)
  /\ pc' = [pc EXCEPT ![o] = "close_insert"]
  /\ UNCHANGED <<args, opens, connection, updatedRecords, cb, calls, lookup>>

\* the callback given to close after insert
insert_close(o) ==
  /\ pc[o] = "close_insert"
  /\ Closed(o)
  /\ IF err[o] # NoErr
       THEN cb' = Invoked(o, err[o], Undefined, connection[o])
       ELSE cb' = Invoked(o, NoErr, List(RewriteIds(results[o].items)), connection[o])
  /\ pc' = [pc EXCEPT ![o] = "done"]
  /\ Drop(o)
  /\ UNCHANGED <<definition, self, store, closers, closes, args, opens, connection, updatedRecords, calls, lookup, touched, changed, interleaved>>

\* ------------------------------------------------------------------------
\* destroy
\* ------------------------------------------------------------------------
WriteCriteria == {Plain(<<>>), Plain([where |-> "a"]), Plain([where |-> "b"]), Malformed}

\* the synchronous part of destroy(criteria, cb)
destroy(o, criteria) ==
  /\ NextSlot(o)
  /\ LET c == NewConnection
     IN /\ connection' = [connection EXCEPT ![o] = c]
        /\ conns' = [conns EXCEPT ![c] = "created"]
        /\ args' = [args EXCEPT ![o] = [op |-> "destroy", criteria |-> criteria, values |-> <<>>]]
        /\ IF QueryThrows(criteria)
             THEN /\ cb' = Invoked(o, QueryErr, Undefined, c)
                  /\ pc' = [pc EXCEPT ![o] = "done"]
                  /\ UNCHANGED opens
             ELSE /\ pc' = [pc EXCEPT ![o] = "opening"]
                  /\ opens' = [opens EXCEPT ![o] = @ + 1]
                  /\ UNCHANGED cb
  /\ UNCHANGED <<definition, self, store, closers, closes, err, results, updatedRecords, calls, lookup, touched, changed, interleaved>>

\* the callback given to connection.open
destroy_open(o, outcome) ==
  /\ pc[o] = "opening" /\ args[o].op = "destroy"
  /\ conns' = [conns EXCEPT ![connection[o]] = OpenState(outcome)]
  /\ calls' = Issued(o, "remove", [filter |-> Where(args[o].criteria)])
  /\ pc' = [pc EXCEPT ![o] = "remove"]
  /\ UNCHANGED <<definition, self, store, closers, closes, args, opens, connection, err, results, updatedRecords, cb,
                 lookup, touched, changed, interleaved>>

\* how the driver reports a removal: the number of removed documents, or the
\* list of their identifiers
RemoveShapes == {"count", "list"}
Removed(st, w, shape) ==
  IF shape = "count" THEN Num(Cardinality(Matching(st, w)))
  ELSE List(SeqOfSet(Matching(st, w)))

\* the callback given to collection.remove
destroy_remove_cb(o, outcome, shape) ==
  /\ pc[o] = "remove"
  /\ outcome \in DriverOutcomes(connection[o])
  /\ IF outcome = "ok"
       THEN /\ Capture(o, NoErr, Removed(store, Pending(o).filter, shape))
            /\ Wrote(o, DriverRemove(store, Pending(o).filter), Matching(store, Pending(o).filter))
       ELSE /\ Capture(o, DriverErr, Undefined)
            /\ UNCHANGED <<definition, self, store, touched, changed, interleaved>>
  /\ Close(o)
  /\ pc' = [pc EXCEPT ![o] = "close_remove"]
  /\ UNCHANGED <<args, opens, connection, updatedRecords, cb, calls, lookup>>

\* close's callback with the array branch's exception caught and reported
destroy_close_caught(o) ==
  /\ pc[o] = "close_remove"
  /\ Closed(o)
  /\ IF err[o] # NoErr
       THEN cb' = Invoked(o, err[o], Undefined, connection[o])
       ELSE IF results[o].tag # "array"
         THEN cb' = Invoked(o, NoErr, List(<<[id |-> results[o].n]>>), connection[o])
         ELSE cb' = Invoked(o, "ReferenceError", Undefined, connection[o])
  /\ pc' = [pc EXCEPT ![o] = "done"]
  /\ Drop(o)
  /\ UNCHANGED <<definition, self, store, closers, closes, args, opens, connection, updatedRecords, calls, lookup, touched,
                 changed, interleaved>>

\* the callback given to close after remove: the array branch evaluates the
\* undeclared name resultArray, a ReferenceError
destroy_close(o) ==
  /\ pc[o] = "close_remove"
  /\ Closed(o)
  /\ IF err[o] # NoErr
       THEN /\ cb' = Invoked(o, err[o], Undefined, connection[o])
            /\ pc' = [pc EXCEPT ![o] = "done"]
       ELSE IF results[o].tag # "array"
         THEN /\ cb' = Invoked(o, NoErr, List(<<[id |-> results[o].n]>>), connection[o])
              /\ pc' = [pc EXCEPT ![o] = "done"]
         ELSE /\ pc' = [pc EXCEPT ![o] = "crashed"]
              /\ UNCHANGED cb
  /\ Drop(o)
  /\ UNCHANGED <<definition, self, store, closers, closes, args, opens, connection, updatedRecords, calls, lookup, touched, changed, interleaved>>

\* ------------------------------------------------------------------------
\* update
\* ------------------------------------------------------------------------
UpdateValues == {[name |-> "a"], [name |-> "b"], [name |-> "b", id |-> 0, _id |-> 7]}

\* if(values.id) delete values.id; if(values._id) delete values._id
\* (identifiers are numbers here; the falsy one, 0, is not deleted)
Truthy(v) == v # 0
StripIds(values) ==
  [f \in {g \in DOMAIN values : ~(g \in {"id", "_id"} /\ Truthy(values[g]))} |-> values[f]]

\* the synchronous part of update(criteria, values, cb)
update(o, criteria, values) ==
  /\ NextSlot(o)
  /\ LET c == NewConnection
     IN /\ connection' = [connection EXCEPT ![o] = c]
        /\ conns' = [conns EXCEPT ![c] = "created"]
        /\ IF QueryThrows(criteria)
             THEN /\ args' = [args EXCEPT ![o] = [op |-> "update", criteria |-> criteria,
                                                  values |-> values]]
                  /\ cb' = Invoked(o, QueryErr, Undefined, c)
                  /\ pc' = [pc EXCEPT ![o] = "done"]
                  /\ UNCHANGED opens
             ELSE /\ args' = [args EXCEPT ![o] = [op |-> "update", criteria |-> criteria,
                                                  values |-> StripIds(Document(values))]]
                  /\ pc' = [pc EXCEPT ![o] = "opening"]
                  /\ opens' = [opens EXCEPT ![o] = @ + 1]
                  /\ UNCHANGED cb
  /\ UNCHANGED <<definition, self, store, closers, closes, err, results, updatedRecords, calls, lookup, touched, changed, interleaved>>

\* the callback given to connection.open
update_open(o, outcome) ==
  /\ pc[o] = "opening" /\ args[o].op = "update"
  /\ conns' = [conns EXCEPT ![connection[o]] = OpenState(outcome)]
  /\ calls' = Issued(o, "find", [filter |-> Where(args[o].criteria), options |-> <<>>])
  /\ pc' = [pc EXCEPT ![o] = "lookup"]
  /\ UNCHANGED <<definition, self, store, closers, closes, args, opens, connection, err, results, updatedRecords, cb,
                 lookup, touched, changed, interleaved>>

\* what the lookup's toArray can report: an error, the records, or neither
LookupOutcomes(c) == DriverOutcomes(c) \cup (IF conns[c] = "open" THEN {"null"} ELSE {})

\* if(err || !records): an array, also the empty one, is truthy
LookupFailed(e, records) == e # NoErr \/ records.tag \in {"null", "undefined"}

\* the callback given to the lookup's toArray
update_lookup_cb(o, outcome) ==
  /\ pc[o] = "lookup"
  /\ outcome \in LookupOutcomes(connection[o])
  /\ LET e == IF outcome = "err" THEN DriverErr ELSE NoErr
         records == IF outcome = "ok" THEN List(DriverFind(store, Pending(o).filter))
                    ELSE IF outcome = "null" THEN Null ELSE Undefined
     IN IF LookupFailed(e, records)
          THEN /\ Capture(o, e, Undefined)
               /\ Close(o)
               /\ pc' = [pc EXCEPT ![o] = "close_lookup"]
               /\ UNCHANGED <<updatedRecords, calls>>
          ELSE /\ updatedRecords' = [updatedRecords EXCEPT ![o] =
                                       [k \in DOMAIN records.items |-> records.items[k]._id]]
               /\ UNCHANGED <<conns, closers, closes, err, results>>
               /\ calls' = Issued(o, "update",
                                  [filter |-> Where(args[o].criteria), set |-> args[o].values,
                                   options |-> [multi |-> TRUE]])
               /\ pc' = [pc EXCEPT ![o] = "update"]
  /\ lookup' = [lookup EXCEPT ![o] =
                  IF outcome # "ok" THEN outcome
                  ELSE IF Matching(store, Pending(o).filter) = {} THEN "empty" ELSE "some"]
  /\ UNCHANGED <<definition, self, store, args, opens, connection, cb, touched, changed, interleaved>>

\* the callback given to close after a failed lookup
update_lookup_close(o) ==
  /\ pc[o] = "close_lookup"
  /\ Closed(o)
  /\ IF err[o] # NoErr
       THEN cb' = Invoked(o, err[o], Undefined, connection[o])
       ELSE cb' = Invoked(o, NotFoundErr, Undefined, connection[o])
  /\ pc' = [pc EXCEPT ![o] = "done"]
  /\ Drop(o)
  /\ UNCHANGED <<definition, self, store, closers, closes, args, opens, connection, updatedRecords, calls, lookup, touched, changed, interleaved>>

\* the callback given to collection.update
\* the write's callback closing the connection before it issues the re-fetch
update_write_cb_closeEarly(o, outcome) ==
  /\ pc[o] = "update"
  /\ outcome \in DriverOutcomes(connection[o])
  /\ IF outcome = "ok"
       THEN /\ Wrote(o, DriverUpdate(store, Pending(o).filter, Pending(o).set),
                     Matching(store, Pending(o).filter))
            /\ Close(o)
            /\ UNCHANGED <<err, results>>
            /\ calls' = Issued(o, "find", [ids |-> updatedRecords[o], options |-> <<>>])
            /\ pc' = [pc EXCEPT ![o] = "refetch"]
       ELSE /\ Capture(o, DriverErr, Undefined)
            /\ Close(o)
            /\ pc' = [pc EXCEPT ![o] = "close_write"]
            /\ UNCHANGED <<definition, self, store, touched, changed, interleaved, calls>>
  /\ UNCHANGED <<args, opens, connection, updatedRecords, cb, lookup>>

\* the callback of collection.update
update_write_cb(o, outcome) ==
  /\ pc[o] = "update"
  /\ outcome \in DriverOutcomes(connection[o])
  /\ IF outcome = "ok"
       THEN /\ Wrote(o, DriverUpdate(store, Pending(o).filter, Pending(o).set),
                     Matching(store, Pending(o).filter))
            /\ UNCHANGED <<conns, closers, closes, err, results>>
            /\ calls' = Issued(o, "find", [ids |-> updatedRecords[o], options |-> <<>>])
            /\ pc' = [pc EXCEPT ![o] = "refetch"]
       ELSE /\ Capture(o, DriverErr, Undefined)
            /\ Close(o)
            /\ pc' = [pc EXCEPT ![o] = "close_write"]
            /\ UNCHANGED <<definition, self, store, touched, changed, interleaved, calls>>
  /\ UNCHANGED <<args, opens, connection, updatedRecords, cb, lookup>>

\* the callback given to close after a failed write
update_write_close(o) ==
  /\ pc[o] = "close_write"
  /\ Closed(o)
  /\ cb' = Invoked(o, err[o], Undefined, connection[o])
  /\ pc' = [pc EXCEPT ![o] = "done"]
  /\ Drop(o)
  /\ UNCHANGED <<definition, self, store, closers, closes, args, opens, connection, updatedRecords, calls, lookup, touched, changed, interleaved>>

\* the re-fetch run with the update's where instead of the captured identifiers
Refetch_byWhere(o) == DriverFind(store, Where(args[o].criteria))

\* collection.find({_id: {$in: updatedRecords}}): the re-fetch
Refetch(o) == DriverFindIn(store, Pending(o).ids)

\* the callback given to the re-fetch's toArray
update_refetch_cb(o, outcome) ==
  /\ pc[o] = "refetch"
  /\ outcome \in DriverOutcomes(connection[o])
  /\ IF outcome = "ok"
       THEN Capture(o, NoErr, List(Refetch(o)))
       ELSE Capture(o, DriverErr, Undefined)
  /\ Close(o)
  /\ pc' = [pc EXCEPT ![o] = "close_refetch"]
  /\ UNCHANGED <<definition, self, store, args, opens, connection, updatedRecords, cb, calls, lookup, touched, changed, interleaved>>

\* the callback given to close after the re-fetch
update_refetch_close(o) ==
  /\ pc[o] = "close_refetch"
  /\ Closed(o)
  /\ IF err[o] # NoErr
       THEN cb' = Invoked(o, err[o], Undefined, connection[o])
       ELSE cb' = Invoked(o, NoErr, List(RewriteIds(results[o].items)), connection[o])
  /\ pc' = [pc EXCEPT ![o] = "done"]
  /\ Drop(o)
  /\ UNCHANGED <<definition, self, store, closers, closes, args, opens, connection, updatedRecords, calls, lookup, touched, changed, interleaved>>

\* ------------------------------------------------------------------------
\* The event loop: any pending callback may run next
\* ------------------------------------------------------------------------
\* one callback of operation o runs
Step(o) ==
  \/ \E criteria \in FindCriteria : find(o, criteria)
  \/ \E outcome \in OpenOutcomes : find_open(o, outcome)
  \/ \E outcome \in {"ok", "err"} : find_aggregate_cb(o, outcome)
  \/ find_aggregate_close(o)
  \/ \E outcome \in {"ok", "err"} : find_toArray_cb(o, outcome)
  \/ find_close(o)
  \/ \E values \in InsertValues : insert(o, values)
  \/ \E outcome \in OpenOutcomes : insert_open(o, outcome)
  \/ \E outcome \in {"ok", "err"} : insert_cb(o, outcome)
  \/ insert_close(o)
  \/ \E criteria \in WriteCriteria, values \in UpdateValues : update(o, criteria, values)
  \/ \E outcome \in OpenOutcomes : update_open(o, outcome)
  \/ \E outcome \in {"ok", "err", "null"} : update_lookup_cb(o, outcome)
  \/ update_lookup_close(o)
  \/ \E outcome \in {"ok", "err"} : update_write_cb(o, outcome)
  \/ update_write_close(o)
  \/ \E outcome \in {"ok", "err"} : update_refetch_cb(o, outcome)
  \/ update_refetch_close(o)
  \/ \E criteria \in WriteCriteria : destroy(o, criteria)
  \/ \E outcome \in OpenOutcomes : destroy_open(o, outcome)
  \/ \E outcome \in {"ok", "err"}, shape \in RemoveShapes : destroy_remove_cb(o, outcome, shape)
  \/ destroy_close(o)

Next == \E o \in Ops : Step(o)

Spec == Init /\ [][Next]_vars

\* callers that wait for one operation to finish before starting the next
Alone(o) == \A p \in Ops \ {o} : ~Active(p)

NextAlone ==
  \E o \in Ops :
    \/ Alone(o) /\ (\E criteria \in FindCriteria : find(o, criteria))
    \/ Alone(o) /\ (\E outcome \in OpenOutcomes : find_open(o, outcome))
    \/ Alone(o) /\ (\E outcome \in {"ok", "err"} : find_aggregate_cb(o, outcome))
    \/ Alone(o) /\ find_aggregate_close(o)
    \/ Alone(o) /\ (\E outcome \in {"ok", "err"} : find_toArray_cb(o, outcome))
    \/ Alone(o) /\ find_close(o)
    \/ Alone(o) /\ (\E values \in InsertValues : insert(o, values))
    \/ Alone(o) /\ (\E outcome \in OpenOutcomes : insert_open(o, outcome))
    \/ Alone(o) /\ (\E outcome \in {"ok", "err"} : insert_cb(o, outcome))
    \/ Alone(o) /\ insert_close(o)
    \/ Alone(o) /\ (\E criteria \in WriteCriteria, values \in UpdateValues : update(o, criteria, values))
    \/ Alone(o) /\ (\E outcome \in OpenOutcomes : update_open(o, outcome))
    \/ Alone(o) /\ (\E outcome \in {"ok", "err", "null"} : update_lookup_cb(o, outcome))
    \/ Alone(o) /\ update_lookup_close(o)
    \/ Alone(o) /\ (\E outcome \in {"ok", "err"} : update_write_cb(o, outcome))
    \/ Alone(o) /\ update_write_close(o)
    \/ Alone(o) /\ (\E outcome \in {"ok", "err"} : update_refetch_cb(o, outcome))
    \/ Alone(o) /\ update_refetch_close(o)
    \/ Alone(o) /\ (\E criteria \in WriteCriteria : destroy(o, criteria))
    \/ Alone(o) /\ (\E outcome \in OpenOutcomes : destroy_open(o, outcome))
    \/ Alone(o) /\ (\E outcome \in {"ok", "err"}, shape \in RemoveShapes : destroy_remove_cb(o, outcome, shape))
    \/ Alone(o) /\ destroy_close(o)

\* every definition, operations one after the other
SpecDef == InitDef /\ [][NextAlone]_vars

\* ------------------------------------------------------------------------
\* Properties
\* ------------------------------------------------------------------------
HasCall(o, name) == \E i \in DOMAIN calls[o] : calls[o][i].name = name
Opened(o) == calls[o] # <<>>
Writes == {"insert", "update", "destroy"}

\* C1: whenever the callback of an operation is invoked, its connection is not
\* open: an operation that opened its connection (its open callback ran) has
\* had the close issued and completed by then, on every exit path.
C1_CloseBeforeCallback ==
  \A o \in Ops : \A i \in DOMAIN cb[o] :
    /\ cb[o][i].conn \in {"created", "closed"}
    /\ Opened(o) => cb[o][i].conn = "closed" /\ o \in closers[connection[o]]

\* C1 witness: an update whose write failed, and a find that succeeded, have
\* both called back after their close.
C1_Witness ==
  \E o, p \in Ops :
    /\ args[o].op = "update" /\ pc[o] = "done" /\ Len(calls[o]) = 2
    /\ cb[o][1].err = DriverErr /\ cb[o][1].conn = "closed"
    /\ args[p].op = "find" /\ pc[p] = "done" /\ Opened(p)
    /\ cb[p][1].err = NoErr /\ cb[p][1].conn = "closed"

\* C2 (as claimed): an operation with no callback pending any more has invoked
\* the caller's callback exactly once, whatever the driver reported.
C2_CallbackExactlyOnce ==
  \A o \in Ops :
    /\ Len(cb[o]) <= 1
    /\ Finished(o) => Len(cb[o]) = 1

\* C3 (as claimed): an update whose lookup returned the empty list issues no
\* driver update and reports 'Could not find any records to update'.
C3_NoWriteWhenNothingMatches ==
  \A o \in Ops :
    lookup[o] = "empty" =>
      /\ ~HasCall(o, "update")
      /\ Finished(o) => Len(cb[o]) = 1 /\ cb[o][1].err = NotFoundErr

\* C4 (as claimed): a destroy whose remove succeeded calls back with a list of
\* {id} records, as many as documents were removed, for a count and for a list.
C4_DestroyResultLength ==
  \A o \in Ops :
    (args[o].op = "destroy" /\ Finished(o) /\ Opened(o) /\ err[o] = NoErr) =>
      /\ Len(cb[o]) = 1
      /\ cb[o][1].err = NoErr
      /\ cb[o][1].result.tag = "array"
      /\ Len(cb[o][1].result.items) = Cardinality(touched[o])
      /\ \A k \in DOMAIN cb[o][1].result.items : DOMAIN cb[o][1].result.items[k] = {"id"}

\* C5 (as claimed): once a driver call of an operation has reported an error,
\* the operation awaits no further driver call, and it ends by passing that
\* error to the callback with no result.
C5_DriverErrorStopsProcessing ==
  \A o \in Ops :
    err[o] = DriverErr =>
      /\ pc[o] \in {"close_aggregate", "close_find", "close_insert", "close_lookup",
                     "close_write", "close_refetch", "close_remove", "done", "crashed"}
      /\ Finished(o) => cb[o] = <<[err |-> DriverErr, result |-> Undefined, conn |-> "closed"]>>

\* C6: an operation called with malformed criteria has, within the call, passed
\* the error to its callback; nothing was thrown, its connection was never
\* opened and it issued no driver call.
C6_MalformedCriteriaFailFast ==
  \A o \in Ops :
    (args[o].op \in {"find", "update", "destroy"} /\ args[o].criteria.malformed) =>
      /\ pc[o] = "done"
      /\ cb[o] = <<[err |-> QueryErr, result |-> Undefined, conn |-> "created"]>>
      /\ calls[o] = <<>>
      /\ conns[connection[o]] = "created"
      /\ closers[connection[o]] = {}

\* C6 witness: a find, an update or a destroy was called with malformed criteria.
C6_Witness ==
  \E o, p \in Ops :
    /\ args[o].op = "update" /\ args[o].criteria.malformed /\ Len(cb[o]) = 1
    /\ args[p].op \in {"find", "destroy"} /\ args[p].criteria.malformed /\ Len(cb[p]) = 1

\* C7 (as claimed): no driver call is issued on a connection whose open
\* failed, and the operation ends by passing an error to its callback.
C7_OpenFailureReported ==
  \A o \in Ops :
    /\ \A i \in DOMAIN calls[o] : calls[o][i].state # "failed"
    /\ (Finished(o) /\ Opened(o) /\ calls[o][1].state = "failed") =>
         Len(cb[o]) = 1 /\ cb[o][1].err # NoErr

\* C8: an update that succeeded with no write of another operation in between
\* returns exactly the records that matched where before the write, selected
\* by the captured identifiers, each in its post-update state.
C8_UpdateReturnsUpdatedRecords ==
  \A o \in Ops :
    (args[o].op = "update" /\ pc[o] = "done" /\ cb[o][1].err = NoErr /\ ~interleaved[o]) =>
      /\ Range(updatedRecords[o]) = touched[o]
      /\ cb[o][1].result =
           List([k \in DOMAIN updatedRecords[o] |->
                   [id |-> updatedRecords[o][k], name |-> args[o].values.name]])

\* C8 witness: an update of two matching records changed the field its where
\* filters on, and returned both.
C8_Witness ==
  \E o \in Ops :
    /\ args[o].op = "update" /\ pc[o] = "done" /\ cb[o][1].err = NoErr /\ ~interleaved[o]
    /\ Where(args[o].criteria) = "a" /\ args[o].values.name = "b"
    /\ Len(cb[o][1].result.items) = 2

\* C9 (as claimed): an insert, update or destroy whose callback received an
\* error has left every document of the store as it was.
C9_ErrorMeansNoWrite ==
  \A o \in Ops :
    (args[o].op \in Writes /\ pc[o] = "done" /\ cb[o][1].err # NoErr) => changed[o] = {}

\* C9 (amended): an insert or destroy whose callback received an error, and an
\* update whose callback received an error before its re-fetch was issued, has
\* applied no write to any document; an update reports the error of a failed
\* re-fetch after its write was applied.
C9_ErrorBeforeRefetchMeansNoWrite ==
  \A o \in Ops :
    (args[o].op \in Writes /\ pc[o] = "done" /\ cb[o][1].err # NoErr) =>
      IF args[o].op = "update" /\ Len(calls[o]) = 3
        THEN cb[o][1].err = DriverErr
        ELSE touched[o] = {} /\ changed[o] = {}

\* C9 witness: an update's write failed and a destroy's remove failed, each on
\* a store holding matching documents, and both reported the error.
C9_Witness ==
  \E o, p \in Ops :
    /\ args[o].op = "update" /\ pc[o] = "done" /\ Len(calls[o]) = 2
    /\ cb[o][1].err = DriverErr /\ lookup[o] = "some"
    /\ args[p].op = "destroy" /\ pc[p] = "done" /\ cb[p][1].err = DriverErr
    /\ calls[p][1].state = "open" /\ Matching(store, Where(args[p].criteria)) # {}

\* C10: no operation issues a driver call on a connection that another
\* operation has closed, and no operation closes the connection of another.
C10_NoSharedConnection ==
  \A o \in Ops :
    /\ \A i \in DOMAIN calls[o] : calls[o][i].closedBy \subseteq {o}
    /\ \A c \in ConnIds : o \in closers[c] => \A p \in Ops \ {o} : connection[p] # c

\* C10 witness: an operation issued a driver call while another operation,
\* started before it, had already closed its own connection.
C10_Witness ==
  \E o, p \in Ops :
    /\ o # p /\ Finished(o) /\ Opened(o) /\ closers[connection[o]] = {o}
    /\ Active(p) /\ Opened(p) /\ closers[connection[p]] = {}
    /\ conns[connection[o]] = "closed" /\ conns[connection[p]] = "open"

\* C11: a find without the aggregate flag issues one driver query, whose
\* filter is the criteria's where (the empty predicate when there is none) and
\* whose options are the other criteria keys; when it succeeds the callback
\* gets the documents the driver returned, _id renamed to id.
C11_PlainFindQuery ==
  [][\A o \in Ops :
       (args'[o].op = "find" /\ ~args'[o].criteria.aggregate /\ ~args'[o].criteria.malformed) =>
         LET object == args'[o].criteria.object
         IN /\ Len(calls'[o]) <= 1
            /\ pc'[o] \notin {"idle", "opening"} => Len(calls'[o]) = 1
            /\ \A i \in DOMAIN calls'[o] :
                 /\ calls'[o][i].name = "find"
                 /\ calls'[o][i].request.filter =
                      (IF "where" \in DOMAIN object THEN object.where ELSE "*")
                 /\ DOMAIN calls'[o][i].request.options = DOMAIN object \ {"where"}
                 /\ \A k \in DOMAIN object \ {"where"} :
                      calls'[o][i].request.options[k] = object[k]
            /\ (pc[o] = "close_find" /\ pc'[o] # "close_find" /\ err[o] = NoErr) =>
                 cb'[o] = <<[err |-> NoErr, conn |-> "closed",
                             result |-> List([k \in DOMAIN results[o].items |->
                                                [id |-> results[o].items[k]._id,
                                                 name |-> results[o].items[k].name]])]>>
    ]_vars

\* C11 witness: a find with a where and a limit succeeded and returned a document.
C11_Witness ==
  \E o \in Ops :
    /\ args[o].op = "find" /\ args[o].criteria.object = [where |-> "b", limit |-> 1]
    /\ pc[o] = "done" /\ cb[o][1].err = NoErr /\ Len(cb[o][1].result.items) = 1

\* C12: an aggregate find issues one driver aggregate whose pipeline is a
\* match stage (the where, or the empty predicate) followed by the group
\* stage supplied; when it succeeds the callback gets one record per group,
\* every grouped value of the synthetic _id at top level and no _id key.
C12_AggregateFlattened ==
  [][\A o \in Ops :
       (args'[o].op = "find" /\ args'[o].criteria.aggregate) =>
         LET object == args'[o].criteria.object
         IN /\ Len(calls'[o]) <= 1
            /\ \A i \in DOMAIN calls'[o] :
                 /\ calls'[o][i].name = "aggregate"
                 /\ calls'[o][i].request.pipeline =
                      <<[match |-> IF "where" \in DOMAIN object THEN object.where ELSE "*"],
                        [group |-> args'[o].criteria.group]>>
            /\ (pc[o] = "close_aggregate" /\ pc'[o] # "close_aggregate" /\ err[o] = NoErr) =>
                 /\ pc'[o] = "done" /\ Len(cb'[o]) = 1 /\ cb'[o][1].err = NoErr
                 /\ LET raw == results[o].items
                        out == cb'[o][1].result.items
                    IN /\ cb'[o][1].result.tag = "array"
                       /\ Len(out) = Len(raw)
                       /\ \A k \in DOMAIN raw :
                            /\ "_id" \notin DOMAIN out[k]
                            /\ \A f \in DOMAIN raw[k]._id :
                                 f \in DOMAIN out[k] /\ out[k][f] = raw[k]._id[f]
                            /\ \A f \in DOMAIN raw[k] \ {"_id"} :
                                 f \in DOMAIN out[k] /\ out[k][f] = raw[k][f]
    ]_vars

\* C12 witness: an aggregate find succeeded with two groups.
C12_Witness ==
  \E o \in Ops :
    /\ args[o].op = "find" /\ args[o].criteria.aggregate
    /\ pc[o] = "done" /\ cb[o][1].err = NoErr
    /\ cb[o][1].result.items = <<[name |-> "a", count |-> 1], [name |-> "b", count |-> 1]>>

NumInputs(input) == IF input.isArray THEN Len(input.items) ELSE 1
InputAt(input, k) == IF input.isArray THEN input.items[k] ELSE input.object

\* C13: an insert of one object or of a list shapes every input on its own, in
\* order, persists them with one driver insert, and when it succeeds the
\* callback gets a list with one entry per input, carrying id and no _id.
C13_InsertOnePerInput ==
  \A o \in Ops :
    args[o].op = "insert" =>
      LET n == NumInputs(args[o].input)
      IN /\ Len(calls[o]) <= 1
         /\ \A i \in DOMAIN calls[o] :
              /\ calls[o][i].name = "insert"
              /\ Len(calls[o][i].request.docs) = n
              /\ \A k \in 1..n :
                   calls[o][i].request.docs[k] = [name |-> InputAt(args[o].input, k).name]
         /\ (pc[o] = "done" /\ cb[o][1].err = NoErr) =>
              /\ Len(calls[o]) = 1
              /\ cb[o][1].result.tag = "array"
              /\ Len(cb[o][1].result.items) = n
              /\ \A k \in 1..n :
                   /\ DOMAIN cb[o][1].result.items[k] = {"id", "name"}
                   /\ cb[o][1].result.items[k].name = InputAt(args[o].input, k).name
                   /\ cb[o][1].result.items[k].id \in changed[o]

\* C13 witness: an insert of a single object and an insert of a list both
\* succeeded, each with one entry per input.
C13_Witness ==
  \E o, p \in Ops :
    /\ args[o].op = "insert" /\ ~args[o].input.isArray
    /\ pc[o] = "done" /\ cb[o][1].err = NoErr
    /\ Len(cb[o][1].result.items) = 1
    /\ args[p].op = "insert" /\ args[p].input.isArray
    /\ pc[p] = "done" /\ cb[p][1].err = NoErr
    /\ Len(cb[p][1].result.items) = NumInputs(args[p].input)

\* C14: identity is the definition's identity in lower case, no step changes
\* it, and every driver call of every operation names the collection by it.
C14_IdentityNamesCollection ==
  /\ [](/\ Len(self.identity) = Len(definition.identity)
        /\ \A k \in DOMAIN self.identity :
             /\ self.identity[k] = LowerChar(definition.identity[k])
             /\ self.identity[k] \notin Range(UpperCase)
        /\ \A o \in Ops : \A i \in DOMAIN calls[o] :
             calls[o][i].collection = self.identity)
  /\ [][self'.identity = self.identity]_vars

\* C14 witness: a Collection defined with an upper-case letter in its identity
\* has served an update that issued all three of its driver calls.
C14_Witness ==
  \E o \in Ops :
    /\ definition.identity = <<"U", "s">>
    /\ args[o].op = "update" /\ pc[o] = "done" /\ Len(calls[o]) = 3
    /\ \A i \in DOMAIN calls[o] : calls[o][i].collection = <<"u", "s">>

CallNames(o) == [i \in DOMAIN calls[o] |-> calls[o][i].name]

\* C15: an operation calls connection.open once (not at all when its criteria
\* do not parse), has closed that connection once when it is over and never
\* earlier than its last driver call; update issues find, update, find in this
\* order, each after the previous one reported success.
C15_OneConnectionPerOperation ==
  \A o \in Ops :
    /\ pc[o] # "idle" => opens[o] = (IF QueryThrows(args[o].criteria) THEN 0 ELSE 1)
    /\ closes[o] <= opens[o]
    /\ Finished(o) => closes[o] = opens[o]
    /\ \A i \in DOMAIN calls[o] :
         /\ calls[o][i].conn = connection[o]
         /\ calls[o][i].state \notin {"closing", "closed"}
         /\ o \notin calls[o][i].closedBy
    /\ args[o].op = "update" =>
         /\ CallNames(o) = SubSeq(<<"find", "update", "find">>, 1, Len(calls[o]))
         /\ Len(calls[o]) >= 2 => lookup[o] \in {"some", "empty"}
         /\ pc[o] \in {"update", "refetch"} => err[o] = NoErr /\ closes[o] = 0
         /\ Len(calls[o]) = 3 => pc[o] \in {"refetch", "close_refetch", "done"}

\* C15 witness: an update went through its three driver calls and closed its
\* connection once, and an operation whose criteria did not parse opened none.
C15_Witness ==
  \E o, p \in Ops :
    /\ args[o].op = "update" /\ pc[o] = "done" /\ Len(calls[o]) = 3
    /\ opens[o] = 1 /\ closes[o] = 1
    /\ pc[p] # "idle" /\ QueryThrows(args[p].criteria) /\ opens[p] = 0

\* C16 (as claimed): the $set document of every driver update has neither an
\* id key nor an _id key, whatever identifier values the caller supplied.
C16_SetHasNoIdentifier ==
  \A o \in Ops : \A i \in DOMAIN calls[o] :
    calls[o][i].name = "update" =>
      DOMAIN calls[o][i].request.set \cap {"id", "_id"} = {}

Descriptor(field) ==
  [index |-> SingleKey(field.key),
   options |-> IF Flag(field.spec, "unique")
               THEN [sparse |-> TRUE, unique |-> TRUE]
               ELSE [sparse |-> TRUE]]

\* C17: indexes lists, in schema order, one descriptor for each field flagged
\* unique or index and nothing else; schema is the definition's schema without
\* truthy autoIncrement attributes; no step changes indexes or schema.
C17_OneDescriptorPerFlaggedField ==
  /\ [](LET fields == definition.definition
            flagged == SelectSeq(fields, LAMBDA f : Flag(f.spec, "unique") \/ Flag(f.spec, "index"))
        IN /\ Len(self.indexes) = Len(flagged)
           /\ \A k \in DOMAIN flagged : self.indexes[k] = Descriptor(flagged[k])
           /\ Len(self.schema) = Len(fields)
           /\ \A k \in DOMAIN fields :
                /\ self.schema[k].key = fields[k].key
                /\ self.schema[k].spec =
                     [f \in {g \in DOMAIN fields[k].spec :
                               ~(g = "autoIncrement" /\ fields[k].spec[g])} |->
                        fields[k].spec[f]])
  /\ [][self'.indexes = self.indexes /\ self'.schema = self.schema]_vars

\* C17 witness: a Collection whose first field is flagged unique and index and
\* whose second is an auto-incremented index holds two descriptors, the first
\* unique, after an insert and a destroy were served.
C17_Witness ==
  \E o, p \in Ops :
    /\ definition.definition = Schema([unique |-> TRUE, index |-> TRUE],
                                      [index |-> TRUE, autoIncrement |-> TRUE])
    /\ Len(self.indexes) = 2
    /\ self.indexes[1].options = [sparse |-> TRUE, unique |-> TRUE]
    /\ self.indexes[2].options = [sparse |-> TRUE]
    /\ args[o].op = "insert" /\ pc[o] = "done" /\ cb[o][1].err = NoErr
    /\ args[p].op = "destroy" /\ pc[p] = "done"

\* C18 (as claimed): the records a successful update returns are exactly the
\* documents its write applied to, also when other operations wrote meanwhile.
C18_ReturnsWhatTheWriteModified ==
  \A o \in Ops :
    (args[o].op = "update" /\ pc[o] = "done" /\ cb[o][1].err = NoErr) =>
      {cb[o][1].result.items[k].id : k \in DOMAIN cb[o][1].result.items} = touched[o]

====
